---- MODULE Spec2Model ----
(***************************************************************************)
(* The TrustyClaw escrow program (programs/escrow/src/lib.rs): one escrow  *)
(* account per provider (a PDA seeded by the provider's key), the token    *)
(* accounts it moves USDC between, and one action per instruction.  Every  *)
(* instruction is one atomic transaction: Anchor validates the accounts    *)
(* struct, then runs the access_control check, then the handler body.      *)
(***************************************************************************)
EXTENDS Integers, Sequences, FiniteSets, TLC

\* ---------------------------------------------------------------- bounds
\* Token balance every wallet starts with.
InitBal == 1
\* The clock is advanced up to this unix time.
MaxTime == 1

\* ------------------------------------------------------------ identities
\* Owners of token accounts.  "P" and "Q" may create escrows; "R" is the usual
\* renter; "A" is the identity the deployment designates as dispute arbiter.
Actors == {"P", "Q", "R", "A"}
\* Keys an escrow PDA can be derived from (seeds = [ESCROW_SEED, provider]).
Providers == {"P", "Q"}
\* Pubkey::default()
DefaultPubkey == "default"
\* The configured dispute authority the specification speaks of.
Arbiter == "A"

\* const MAX_SKILL_NAME_LEN, and #[max_len(64)] on Escrow.skill_name
MAX_SKILL_NAME_LEN == 64
\* const MAX_METADATA_URI_LEN, and #[max_len(256)] on Escrow.metadata_uri
MAX_METADATA_URI_LEN == 256
\* #[max_len(256)] on Escrow.dispute_reason
MAX_DISPUTE_REASON_LEN == 256
\* The mint every escrow of this model is denominated in (USDC_MINT).
Mint == "USDC"

\* Arguments of initialize; strings are represented by their length.
GoodTerms ==
    [skill_name |-> 16, duration_seconds |-> 1, price_usdc |-> 1, metadata_uri |-> 32]
\* Terms a caller may pass to initialize: well-formed ones, a zero and a
\* negative duration, a skill name and a metadata URI one character over their
\* bounds, and a metadata URI larger than the whole account.
AllTerms ==
    { GoodTerms,
      [GoodTerms EXCEPT !.duration_seconds = 0],
      [GoodTerms EXCEPT !.duration_seconds = -1],
      [GoodTerms EXCEPT !.skill_name = 65],
      [GoodTerms EXCEPT !.metadata_uri = 257],
      [GoodTerms EXCEPT !.metadata_uri = 600] }

\* Amounts a caller may pass to fund; one more than any wallet holds at start.
Amounts == 0..(InitBal + 1)
\* Dispute reasons, represented by their length in characters: empty, short,
\* one over the bound, and larger than the whole account.
Reasons == {0, 11, 257, 600}

\* Option<T>
None == <<>>
Some(x) == <<x>>

\* Addresses a caller may pass as the `state` account of programs/reputation
\* (a plain keypair account: Initialize gives it no seeds).
StateAccounts == {"S1", "S2"}
\* Addresses a caller may pass as the `agent` account of programs/reputation.
AgentAccounts == {"G1"}
\* Addresses a caller may pass as the `review` account of programs/reputation.
ReviewAddresses == {"V1", "V2"}
\* The identity that signs the instructions of the reputation programs (no
\* instruction of theirs compares the signer with anything).
ReputationSigners == {"R"}
\* review_id values of reputation.rs (seeds = [REVIEW_SEED, &review_id]).
ReviewIds == {"r1", "r2"}

\* An escrow PDA that has not been initialized.
NoRecord == [state |-> "Uninitialized"]

\* enum EscrowState
EscrowState == {"Created", "Funded", "Released", "Refunded", "Disputed"}

\* ---------------------------------------------------------------- errors
\* EscrowError::InvalidState, raised by state_is.
InvalidState == "InvalidState"
\* Anchor's has_one constraint violation: the signer is not the identity the
\* record names.  This is the error kind the specification calls Unauthorized.
Unauthorized == "ConstraintHasOne"
\* The token program rejected the transfer (the `?` on token::transfer).
TransferFailed == "TokenError"
\* Anchor's init constraint on an account that already exists.
AlreadyExists == "AccountInUse"
\* Anchor's Account<Escrow> on an account that was never initialized.
NotInitialized == "AccountNotInitialized"
\* Anchor could not write the record back: it outgrew the account's space.
DidNotSerialize == "AccountDidNotSerialize"

VARIABLES
    escrows,    \* provider key -> Escrow account data, or NoRecord
    wallet,     \* owner -> balance of the owner's associated token account
    custody,    \* provider key -> balance of the escrow PDA's token account
    now,        \* Clock::get()?.unix_timestamp
    keys,       \* providers that create escrows in this run
    last,       \* the last instruction processed and its result
    withdrawn,  \* provider key -> log of transfers out of the custody account
    signers,    \* provider key -> who signed instructions since funding
    audit,      \* which history is kept in this run: "calls" or "signers"
    offers,     \* the terms providers pass to initialize in this run
    repStates,  \* programs/reputation: address -> ReputationState account, if any
    agents,     \* programs/reputation: address -> Agent account, if any
    reviews,    \* programs/reputation: address -> Review account, if any
    reputations,    \* reputation.rs: agent key -> ReputationAccount PDA, if any
    reviewAccounts  \* reputation.rs: review_id -> ReviewAccount PDA, if any

\* The accounts of the two reputation programs.
reputationVars == <<repStates, agents, reviews, reputations, reviewAccounts>>

vars == <<escrows, wallet, custody, now, keys, last, withdrawn, signers, audit, offers,
          reputationVars>>

\* Identities that sign instructions in this run.
Callers == {"P", "R", "A"} \cup keys

\* ----------------------------------------------------------- the runtime
\* token::transfer succeeds iff the token program accepts it (accounts not
\* frozen, ...: `ok`) and the source holds the amount.
TransferAccepted(balance, amount, ok) == ok /\ balance >= amount

\* const ESCROW_SEED of the escrow program.
ESCROW_SEED == "trustyclaw-escrow"

\* The seeds the escrow PDA's address is derived from, in every accounts
\* struct: seeds = [ESCROW_SEED, escrow.provider.as_ref()], bump.  The
\* canonical bump is part of both the derivation and the signer seeds and is
\* left out of both.
PdaSeeds(e) == <<ESCROW_SEED, e.provider>>

\* Variant: the provider's key is left out of the signer seeds.
SignerSeedsNoProvider(e) == <<ESCROW_SEED>>

\* The signer seeds the handlers pass to CpiContext::new_with_signer:
\* [ESCROW_SEED, escrow.provider.as_ref(), &[ctx.bumps.escrow]].
SignerSeeds(e) == <<ESCROW_SEED, e.provider>>

\* invoke_signed: the PDA counts as a signer of the inner instruction only
\* when the presented seeds derive its address; otherwise the call into the
\* token program is refused.
InvokeSigned(presented, derived) == presented = derived

\* Variant: the data written before the failure is kept.
PersistAlways(pre, staged, result) == staged

\* A handler that returns Err leaves no trace: the account data it wrote is
\* persisted only when the instruction returns Ok.
Persist(pre, staged, result) == IF result = "Ok" THEN staged ELSE pre

\* Variant: the Result of token::transfer is dropped.
PropagateIgnored(moved) == "Ok"

\* The `?` on token::transfer: a rejected transfer is returned as the
\* instruction's error.
Propagate(moved) == IF moved THEN "Ok" ELSE TransferFailed

\* fn valid_escrow_account: provider_token_account.amount >= itself.
ValidEscrowAccount(balance) == balance >= balance

\* Bytes the account reserves for the variable-size fields of Escrow
\* (space = Escrow::INIT_SPACE + 8): a String takes 4 + len bytes, an
\* Option<String> 1 byte more.
StringSpace ==
    (4 + MAX_SKILL_NAME_LEN) + (4 + MAX_METADATA_URI_LEN) + (1 + 4 + MAX_DISPUTE_REASON_LEN)

\* Bytes the variable-size fields of a record take when serialized.
StringBytes(e) ==
    (4 + e.skill_name) + (4 + e.metadata_uri)
    + (IF e.dispute_reason = None THEN 1 ELSE 1 + 4 + e.dispute_reason[1])

\* On exit Anchor serializes the record into the account; a record that
\* does not fit fails the instruction.  Only initialize and dispute write
\* strings, so only they can outgrow the account.
Exit(staged, result) ==
    IF result = "Ok" /\ StringBytes(staged) > StringSpace THEN DidNotSerialize
    ELSE result

\* Variant: the state check always passes.
StateIsAny(e, expected) == TRUE

\* Variant: the check looks at every escrow account of the program.
StateIsEverywhere(e, expected) == \A k \in keys : escrows[k].state = expected

\* fn state_is
StateIs(e, expected) == e.state = expected

\* Variant: Release without has_one = renter.
HasOneRenterAny(e, caller) == TRUE

\* has_one = renter on Release: escrow.renter == renter.key()
HasOneRenter(e, caller) == e.renter = caller

\* Released and Refunded are the terminal states.
IsTerminal(e) == e.state \in {"Released", "Refunded"}

\* Record of an instruction and its outcome, kept when calls are audited.
Call(op, k, caller, amount, result) ==
    IF audit = "calls"
    THEN [op |-> op, key |-> k, caller |-> caller, amount |-> amount, result |-> result]
    ELSE last

\* Who signed since funding, kept when signers are audited: cleared by the
\* successful fund, then extended by every instruction on the record until it
\* is settled.
Signed(k, caller, result, op) ==
    IF audit # "signers" THEN signers
    ELSE IF op = "fund" /\ result = "Ok" THEN [signers EXCEPT ![k] = {}]
    ELSE IF escrows[k].state \in {"Funded", "Disputed"}
         THEN [signers EXCEPT ![k] = @ \cup {caller}]
         ELSE signers

\* Neither reputation program has created an account yet.
NoReputationAccounts ==
    /\ repStates = [s \in StateAccounts |-> None]
    /\ agents = [a \in AgentAccounts |-> None]
    /\ reviews = [v \in ReviewAddresses |-> None]
    /\ reputations = [a \in Providers |-> None]
    /\ reviewAccounts = [i \in ReviewIds |-> None]

\* The program is deployed and no escrow account exists yet.
Deployed ==
    /\ escrows = [k \in Providers |-> NoRecord]
    /\ wallet = [a \in Actors |-> InitBal]
    /\ custody = [k \in Providers |-> 0]
    /\ now = 0
    /\ keys = {"P"}
    /\ last = [op |-> "none", key |-> "P", caller |-> "P", amount |-> 0, result |-> "Ok"]
    /\ withdrawn = [k \in Providers |-> <<>>]
    /\ signers = [k \in Providers |-> {}]
    /\ NoReputationAccounts

Init == Deployed /\ audit = "calls" /\ offers = {GoodTerms}

InitSigners == Deployed /\ audit = "signers" /\ offers = {GoodTerms}

\* Providers pass arbitrary terms.
InitTerms == Deployed /\ audit = "calls" /\ offers = AllTerms

\* ------------------------------------------------------------ initialize
\* Variant: init_if_needed in place of init.
InitializeCheckIfNeeded(e, balance) == "Ok"

\* Initialize accounts: #[account(init, seeds = [ESCROW_SEED, provider], ..)],
\* then #[access_control(valid_escrow_account(&ctx))].
InitializeCheck(e, balance) ==
    IF e # NoRecord THEN AlreadyExists
    ELSE IF ~ValidEscrowAccount(balance) THEN "InsufficientFunds"
    ELSE "Ok"

InitializeStaged(k, terms) ==
    [ provider |-> k,
      renter |-> DefaultPubkey,
      token_mint |-> Mint,
      skill_name |-> terms.skill_name,
      duration_seconds |-> terms.duration_seconds,
      price_usdc |-> terms.price_usdc,
      metadata_uri |-> terms.metadata_uri,
      amount |-> 0,
      state |-> "Created",
      created_at |-> now,
      funded_at |-> None,
      completed_at |-> None,
      disputed_at |-> None,
      dispute_reason |-> None ]

Initialize(k, terms) ==
    LET e == escrows[k]
        staged == InitializeStaged(k, terms)
        result == Exit(staged, InitializeCheck(e, wallet[k]))
    IN /\ escrows' = [escrows EXCEPT ![k] = Persist(e, staged, result)]
       /\ last' = Call("initialize", k, k, 0, result)
       /\ signers' = Signed(k, k, result, "initialize")
       /\ UNCHANGED <<wallet, custody, now, keys, withdrawn, audit, offers, reputationVars>>

\* ------------------------------------------------------------------ fund
\* Variant: fund does not record the renter.
FundStagedNoRenter(e, caller, amount) ==
    [e EXCEPT !.amount = amount, !.state = "Funded", !.funded_at = Some(now)]

\* The fields fund writes before the transfer.
FundStaged(e, caller, amount) ==
    [e EXCEPT !.renter = caller, !.amount = amount,
              !.state = "Funded", !.funded_at = Some(now)]

\* Variant: fund without the state check.
FundCheckAnyState(e) ==
    IF e = NoRecord THEN NotInitialized ELSE "Ok"

\* Account validation and #[access_control(state_is(&ctx, Created))].
FundCheck(e) ==
    IF e = NoRecord THEN NotInitialized
    ELSE IF ~StateIs(e, "Created") THEN InvalidState
    ELSE "Ok"

Fund(k, caller, amount, ok) ==
    LET e == escrows[k]
        check == FundCheck(e)
        moved == check = "Ok" /\ TransferAccepted(wallet[caller], amount, ok)
        result == IF check # "Ok" THEN check ELSE Propagate(moved)
    IN /\ escrows' = [escrows EXCEPT
                        ![k] = Persist(e, IF e = NoRecord THEN e
                                          ELSE FundStaged(e, caller, amount), result)]
       /\ wallet' = IF moved THEN [wallet EXCEPT ![caller] = @ - amount] ELSE wallet
       /\ custody' = IF moved THEN [custody EXCEPT ![k] = @ + amount] ELSE custody
       /\ last' = Call("fund", k, caller, amount, result)
       /\ signers' = Signed(k, caller, result, "fund")
       /\ UNCHANGED <<now, keys, withdrawn, audit, offers, reputationVars>>

\* -------------------------------------------------------------- complete
CompleteCheck(e) ==
    IF e = NoRecord THEN NotInitialized
    ELSE IF ~StateIs(e, "Funded") THEN InvalidState
    ELSE "Ok"

Complete(k, caller) ==
    LET result == CompleteCheck(escrows[k])
    IN /\ last' = Call("complete", k, caller, 0, result)
       /\ signers' = Signed(k, caller, result, "complete")
       /\ UNCHANGED <<escrows, wallet, custody, now, keys, withdrawn, audit, offers, reputationVars>>

\* ----------------------------------------- transfers out of custody
\* The shared tail of release, refund and the two resolve instructions:
\* token::transfer(CpiContext::new_with_signer(..), escrow.amount)? moves
\* escrow.amount from the custody account to the token account of `to`, and
\* the staged record is persisted when the instruction returns Ok.  `signed`
\* tells whether the signer seeds given to new_with_signer make the escrow
\* PDA a signer of the transfer.
Settle(k, caller, op, check, staged, to, ok, signed) ==
    LET e == escrows[k]
        moved == check = "Ok" /\ signed /\ TransferAccepted(custody[k], e.amount, ok)
        result == IF check # "Ok" THEN check ELSE Propagate(moved)
    IN /\ escrows' = [escrows EXCEPT ![k] = Persist(e, staged, result)]
       /\ custody' = IF moved THEN [custody EXCEPT ![k] = @ - e.amount] ELSE custody
       /\ wallet' = IF moved THEN [wallet EXCEPT ![to] = @ + e.amount] ELSE wallet
       /\ withdrawn' = IF moved
                       THEN [withdrawn EXCEPT
                               ![k] = Append(@, [to |-> to, amount |-> e.amount])]
                       ELSE withdrawn
       /\ last' = Call(op, k, caller, 0, result)
       /\ signers' = Signed(k, caller, result, op)
       /\ UNCHANGED <<now, keys, audit, offers, reputationVars>>

\* Variant: the payout goes to the signer's token account.
PayToCaller(e, caller) == caller

\* provider_token_account: associated_token::authority = escrow.provider
ProviderTokenAccount(e, caller) == e.provider

\* Variant: the refund goes to the signer's token account.
RefundToCaller(e, caller) == caller

\* renter_token_account: associated_token::authority = escrow.renter
RenterTokenAccount(e, caller) == e.renter

\* --------------------------------------------------------------- release
\* Variant: the amount is cleared on payout.
ReleaseStagedZero(e) ==
    [e EXCEPT !.state = "Released", !.completed_at = Some(now), !.amount = 0]

\* Variant: the payout stamps funded_at again.
ReleaseStagedRestamp(e) ==
    [e EXCEPT !.state = "Released", !.completed_at = Some(now), !.funded_at = Some(now)]

\* The fields release and resolve_dispute_release write before the transfer.
ReleaseStaged(e) ==
    [e EXCEPT !.state = "Released", !.completed_at = Some(now)]

\* Release accounts (has_one = renter), then state_is(&ctx, Funded).
ReleaseCheck(e, caller) ==
    IF e = NoRecord THEN NotInitialized
    ELSE IF ~HasOneRenter(e, caller) THEN Unauthorized
    ELSE IF ~StateIs(e, "Funded") THEN InvalidState
    ELSE "Ok"

Release(k, caller, ok) ==
    LET e == escrows[k]
    IN Settle(k, caller, "release", ReleaseCheck(e, caller),
              IF e = NoRecord THEN e ELSE ReleaseStaged(e),
              IF e = NoRecord THEN caller ELSE ProviderTokenAccount(e, caller), ok,
              e # NoRecord /\ InvokeSigned(SignerSeeds(e), PdaSeeds(e)))

\* ---------------------------------------------------------------- refund
\* Variant: the dispute reason is dropped when the funds go back.
RefundStagedClear(e) == [e EXCEPT !.state = "Refunded", !.dispute_reason = None]

\* The field refund and resolve_dispute_refund write before the transfer.
RefundStaged(e) == [e EXCEPT !.state = "Refunded"]

\* Variant: refund is also accepted while the record is Disputed.
RefundCheckLoose(e, caller) ==
    IF e = NoRecord THEN NotInitialized
    ELSE IF e.state \notin {"Funded", "Disputed"} THEN InvalidState
    ELSE "Ok"

\* Refund accounts (provider: Signer, no has_one), then state_is(&ctx, Funded).
RefundCheck(e, caller) ==
    IF e = NoRecord THEN NotInitialized
    ELSE IF ~StateIs(e, "Funded") THEN InvalidState
    ELSE "Ok"

Refund(k, caller, ok) ==
    LET e == escrows[k]
    IN Settle(k, caller, "refund", RefundCheck(e, caller),
              IF e = NoRecord THEN e ELSE RefundStaged(e),
              IF e = NoRecord THEN caller ELSE RenterTokenAccount(e, caller), ok,
              e # NoRecord /\ InvokeSigned(SignerSeeds(e), PdaSeeds(e)))

\* --------------------------------------------------------------- dispute
\* Variant: dispute also stamps the record as completed.
DisputeStagedStamped(e, reason) ==
    [e EXCEPT !.state = "Disputed", !.dispute_reason = Some(reason),
              !.disputed_at = Some(now), !.completed_at = Some(now)]

\* The fields dispute writes.
DisputeStaged(e, reason) ==
    [e EXCEPT !.state = "Disputed", !.dispute_reason = Some(reason),
              !.disputed_at = Some(now)]

\* Dispute accounts (authority: Signer), then state_is(&ctx, Funded).
DisputeCheck(e, caller, reason) ==
    IF e = NoRecord THEN NotInitialized
    ELSE IF ~StateIs(e, "Funded") THEN InvalidState
    ELSE "Ok"

Dispute(k, caller, reason) ==
    LET e == escrows[k]
        staged == IF e = NoRecord THEN e ELSE DisputeStaged(e, reason)
        check == DisputeCheck(e, caller, reason)
        result == IF check # "Ok" THEN check ELSE Exit(staged, check)
    IN /\ escrows' = [escrows EXCEPT ![k] = Persist(e, staged, result)]
       /\ last' = Call("dispute", k, caller, 0, result)
       /\ signers' = Signed(k, caller, result, "dispute")
       /\ UNCHANGED <<wallet, custody, now, keys, withdrawn, audit, offers, reputationVars>>

\* ------------------------------------------------------- resolve_dispute_*
\* Variant: resolution is also accepted on a record that is only Funded.
ResolveDisputeCheckLoose(e, caller) ==
    IF e = NoRecord THEN NotInitialized
    ELSE IF e.state \notin {"Funded", "Disputed"} THEN InvalidState
    ELSE "Ok"

\* ResolveDispute accounts (authority: Signer), then state_is(&ctx, Disputed).
ResolveDisputeCheck(e, caller) ==
    IF e = NoRecord THEN NotInitialized
    ELSE IF ~StateIs(e, "Disputed") THEN InvalidState
    ELSE "Ok"

ResolveDisputeRelease(k, caller, ok) ==
    LET e == escrows[k]
    IN Settle(k, caller, "resolve_dispute_release", ResolveDisputeCheck(e, caller),
              IF e = NoRecord THEN e ELSE ReleaseStaged(e),
              IF e = NoRecord THEN caller ELSE ProviderTokenAccount(e, caller), ok,
              e # NoRecord /\ InvokeSigned(SignerSeeds(e), PdaSeeds(e)))

ResolveDisputeRefund(k, caller, ok) ==
    LET e == escrows[k]
    IN Settle(k, caller, "resolve_dispute_refund", ResolveDisputeCheck(e, caller),
              IF e = NoRecord THEN e ELSE RefundStaged(e),
              IF e = NoRecord THEN caller ELSE RenterTokenAccount(e, caller), ok,
              e # NoRecord /\ InvokeSigned(SignerSeeds(e), PdaSeeds(e)))

\* ----------------------------------------------------------------- clock
Tick ==
    /\ now < MaxTime
    /\ now' = now + 1
    /\ UNCHANGED <<escrows, wallet, custody, keys, last, withdrawn, signers, audit, offers, reputationVars>>

Next ==
    \/ \E k \in keys, t \in offers : Initialize(k, t)
    \/ \E k \in keys, c \in Callers, a \in Amounts, ok \in BOOLEAN : Fund(k, c, a, ok)
    \/ \E k \in keys, c \in Callers : Complete(k, c)
    \/ \E k \in keys, c \in Callers, ok \in BOOLEAN : Release(k, c, ok)
    \/ \E k \in keys, c \in Callers, ok \in BOOLEAN : Refund(k, c, ok)
    \/ \E k \in keys, c \in Callers, r \in Reasons : Dispute(k, c, r)
    \/ \E k \in keys, c \in Callers, ok \in BOOLEAN : ResolveDisputeRelease(k, c, ok)
    \/ \E k \in keys, c \in Callers, ok \in BOOLEAN : ResolveDisputeRefund(k, c, ok)
    \/ Tick

Spec == Init /\ [][Next]_vars

\* The same program, auditing who signed instead of the calls.
SpecSigners == InitSigners /\ [][Next]_vars

\* The same program, with providers passing arbitrary terms.
SpecTerms == InitTerms /\ [][Next]_vars

\* Two providers, P and Q, each with an escrow account of its own; no
\* history of calls is kept.
InitTwo ==
    /\ escrows = [k \in Providers |-> NoRecord]
    /\ wallet = [a \in Actors |-> InitBal]
    /\ custody = [k \in Providers |-> 0]
    /\ now = 0
    /\ keys = Providers
    /\ last = [op |-> "none", key |-> "P", caller |-> "P", amount |-> 0, result |-> "Ok"]
    /\ withdrawn = [k \in Providers |-> <<>>]
    /\ signers = [k \in Providers |-> {}]
    /\ NoReputationAccounts
    /\ audit = "none"
    /\ offers = {GoodTerms}

\* The instructions of the program, at one reading of the clock.
NextTwo ==
    \/ \E k \in keys, t \in offers : Initialize(k, t)
    \/ \E k \in keys, c \in Callers, a \in Amounts, ok \in BOOLEAN : Fund(k, c, a, ok)
    \/ \E k \in keys, c \in Callers : Complete(k, c)
    \/ \E k \in keys, c \in Callers, ok \in BOOLEAN : Release(k, c, ok)
    \/ \E k \in keys, c \in Callers, ok \in BOOLEAN : Refund(k, c, ok)
    \/ \E k \in keys, c \in Callers, r \in Reasons : Dispute(k, c, r)
    \/ \E k \in keys, c \in Callers, ok \in BOOLEAN : ResolveDisputeRelease(k, c, ok)
    \/ \E k \in keys, c \in Callers, ok \in BOOLEAN : ResolveDisputeRefund(k, c, ok)

\* The escrows of two providers side by side.
SpecTwo == InitTwo /\ [][NextTwo]_vars

\* One provider, no history of calls: the program as Spec runs it, under the
\* assumption that settlement keeps being attempted.
InitLive == Deployed /\ audit = "none" /\ offers = {GoodTerms}

\* A release whose transfer the ledger accepts and which goes through.
ReleaseDone(k) ==
    \E c \in Callers : Release(k, c, TRUE) /\ escrows'[k] # escrows[k]

\* A refund whose transfer the ledger accepts and which goes through.
RefundDone(k) ==
    \E c \in Callers : Refund(k, c, TRUE) /\ escrows'[k] # escrows[k]

\* A resolution in the provider's favour that goes through.
ResolveDisputeReleaseDone(k) ==
    \E c \in Callers : ResolveDisputeRelease(k, c, TRUE) /\ escrows'[k] # escrows[k]

\* A resolution in the renter's favour that goes through.
ResolveDisputeRefundDone(k) ==
    \E c \in Callers : ResolveDisputeRefund(k, c, TRUE) /\ escrows'[k] # escrows[k]

\* The callers keep attempting settlement and the ledger accepts the
\* transfers: each of the four paying instructions, when it stays possible,
\* is eventually executed.
SettlementAttempted ==
    \A k \in Providers :
        /\ WF_vars(ReleaseDone(k))
        /\ WF_vars(RefundDone(k))
        /\ WF_vars(ResolveDisputeReleaseDone(k))
        /\ WF_vars(ResolveDisputeRefundDone(k))

SpecLive == InitLive /\ [][Next]_vars /\ SettlementAttempted

\* ======================================================================
\* The simple escrow program (contracts/escrow/programs/escrow.rs): the same
\* PDA per provider, with the instructions initialize_escrow, accept_escrow,
\* complete_task, cancel_escrow and check_timeout.
\* ======================================================================

\* i64::MAX on a scaled-down range: timestamps and durations are i64, kept
\* here as integers up to MaxI64 so that the sum in check_timeout can leave
\* the range.
MaxI64 == 3

\* const ESCROW_SEED of the simple program.
ESCROW_SEED_SIMPLE == "escrow"

\* enum EscrowState of the simple program.
SimpleEscrowState == {"Created", "Funded", "Completed", "Cancelled"}

\* Terms that fit the account of the simple program.
TinyTerms ==
    [skill_name |-> 4, duration_seconds |-> 1, price_usdc |-> 1, metadata_uri |-> 8]

\* Terms passed to initialize_escrow: short ones, short ones with the
\* longest duration an i64 holds, and ones whose strings outgrow the account.
SimpleOffers ==
    { TinyTerms, [TinyTerms EXCEPT !.duration_seconds = MaxI64], GoodTerms }

\* EscrowAccount::LEN, the space the account is created with.
LEN == 8 + 32 * 4 + 4 + 64 + 1 + 8 + 8 + 8 + 8

\* Bytes an EscrowAccount takes when serialized: discriminator, five
\* Pubkeys, the terms (two Strings, an i64 and a u64), the state, amount and
\* three timestamps.
EscrowAccountBytes(e) ==
    8 + 32 * 5 + (4 + e.skill_name) + 8 + 8 + (4 + e.metadata_uri) + 1 + 8 + 8 + 8 + 8

\* On exit the record is serialized into its LEN bytes.
SimpleExit(staged, result) ==
    IF result = "Ok" /\ EscrowAccountBytes(staged) > LEN THEN DidNotSerialize
    ELSE result

\* seeds = [ESCROW_SEED, provider.key().as_ref()], bump on every accounts
\* struct of the simple program.
SimplePdaSeeds(e) == <<ESCROW_SEED_SIMPLE, e.provider>>

\* The signer seeds complete_task and cancel_escrow pass to
\* new_with_signer: [ESCROW_SEED, &[ctx.bumps.escrow_account]].
SimpleSignerSeeds(e) == <<ESCROW_SEED_SIMPLE>>

\* The state a freshly created (zeroed) account deserializes to: the first
\* variant of EscrowState.
ZeroedState == "Created"

\* fn state_not_created
StateNotCreated(state) == state = "Created" \/ state = ZeroedState

\* InitializeEscrow accounts (init on the PDA), then
\* #[access_control(state_not_created(&ctx))] on the fresh account.
InitializeEscrowCheck(e) ==
    IF e # NoRecord THEN AlreadyExists
    ELSE IF ~StateNotCreated(ZeroedState) THEN InvalidState
    ELSE "Ok"

\* The fields initialize_escrow writes; the others keep the zero the account
\* was created with.
InitializeEscrowStaged(k, terms) ==
    [ provider |-> k,
      renter |-> DefaultPubkey,
      token_mint |-> Mint,
      provider_token_account |-> k,
      escrow_token_account |-> DefaultPubkey,
      skill_name |-> terms.skill_name,
      duration_seconds |-> terms.duration_seconds,
      price_usdc |-> terms.price_usdc,
      metadata_uri |-> terms.metadata_uri,
      state |-> "Created",
      amount |-> 0,
      created_at |-> now,
      completed_at |-> 0,
      cancelled_at |-> 0 ]

InitializeEscrow(k, terms) ==
    LET e == escrows[k]
        staged == InitializeEscrowStaged(k, terms)
        result == SimpleExit(staged, InitializeEscrowCheck(e))
    IN /\ escrows' = [escrows EXCEPT ![k] = Persist(e, staged, result)]
       /\ last' = Call("initialize_escrow", k, k, 0, result)
       /\ UNCHANGED <<wallet, custody, now, keys, withdrawn, signers, audit, offers, reputationVars>>

\* The fields accept_escrow writes before the transfer.
AcceptEscrowStaged(e, caller, amount) ==
    [e EXCEPT !.renter = caller, !.amount = amount, !.state = "Funded"]

\* AcceptEscrow accounts, then #[access_control(state_is(&ctx, Created))].
AcceptEscrowCheck(e) ==
    IF e = NoRecord THEN NotInitialized
    ELSE IF ~StateIs(e, "Created") THEN InvalidState
    ELSE "Ok"

AcceptEscrow(k, caller, amount, ok) ==
    LET e == escrows[k]
        check == AcceptEscrowCheck(e)
        moved == check = "Ok" /\ TransferAccepted(wallet[caller], amount, ok)
        result == IF check # "Ok" THEN check ELSE Propagate(moved)
    IN /\ escrows' = [escrows EXCEPT
                        ![k] = Persist(e, IF e = NoRecord THEN e
                                          ELSE AcceptEscrowStaged(e, caller, amount),
                                       result)]
       /\ wallet' = IF moved THEN [wallet EXCEPT ![caller] = @ - amount] ELSE wallet
       /\ custody' = IF moved THEN [custody EXCEPT ![k] = @ + amount] ELSE custody
       /\ last' = Call("accept_escrow", k, caller, amount, result)
       /\ UNCHANGED <<now, keys, withdrawn, signers, audit, offers, reputationVars>>

\* CompleteTask and CancelEscrow accounts (authority: Signer), then
\* #[access_control(state_is(&ctx, Funded))].
SimpleSettleCheck(e, caller) ==
    IF e = NoRecord THEN NotInitialized
    ELSE IF ~StateIs(e, "Funded") THEN InvalidState
    ELSE "Ok"

\* The fields complete_task writes before the transfer.
CompleteTaskStaged(e) == [e EXCEPT !.state = "Completed", !.completed_at = now]

CompleteTask(k, caller, ok) ==
    LET e == escrows[k]
    IN Settle(k, caller, "complete_task", SimpleSettleCheck(e, caller),
              IF e = NoRecord THEN e ELSE CompleteTaskStaged(e),
              IF e = NoRecord THEN caller ELSE ProviderTokenAccount(e, caller), ok,
              e # NoRecord /\ InvokeSigned(SimpleSignerSeeds(e), SimplePdaSeeds(e)))

\* The fields cancel_escrow writes before the transfer.
CancelEscrowStaged(e) == [e EXCEPT !.state = "Cancelled", !.cancelled_at = now]

CancelEscrow(k, caller, ok) ==
    LET e == escrows[k]
    IN Settle(k, caller, "cancel_escrow", SimpleSettleCheck(e, caller),
              IF e = NoRecord THEN e ELSE CancelEscrowStaged(e),
              IF e = NoRecord THEN caller ELSE RenterTokenAccount(e, caller), ok,
              e # NoRecord /\ InvokeSigned(SimpleSignerSeeds(e), SimplePdaSeeds(e)))

\* created_at + terms.duration_seconds on i64: a sum beyond i64::MAX aborts
\* the instruction in a build with overflow checks and wraps around in one
\* without.
AddI64(a, b, checked) ==
    IF a + b <= MaxI64 THEN Some(a + b)
    ELSE IF checked THEN None
    ELSE Some(a + b - 2 * (MaxI64 + 1))

\* Variant: the deadline itself does not count as timed out.
CheckTimeoutResultStrict(e, checked) ==
    IF e = NoRecord THEN NotInitialized
    ELSE IF ~StateIs(e, "Funded") THEN InvalidState
    ELSE LET deadline == AddI64(e.created_at, e.duration_seconds, checked)
         IN IF deadline = None THEN "ArithmeticOverflow"
            ELSE IF now > deadline[1] THEN "Ok(true)" ELSE "Ok(false)"

\* CheckTimeout accounts, then #[access_control(state_is(&ctx, Funded))],
\* then Ok(now >= escrow.created_at + escrow.terms.duration_seconds).
CheckTimeoutResult(e, checked) ==
    IF e = NoRecord THEN NotInitialized
    ELSE IF ~StateIs(e, "Funded") THEN InvalidState
    ELSE LET deadline == AddI64(e.created_at, e.duration_seconds, checked)
         IN IF deadline = None THEN "ArithmeticOverflow"
            ELSE IF now >= deadline[1] THEN "Ok(true)" ELSE "Ok(false)"

CheckTimeout(k, caller, checked) ==
    /\ last' = Call("check_timeout", k, caller, 0, CheckTimeoutResult(escrows[k], checked))
    /\ UNCHANGED <<escrows, wallet, custody, now, keys, withdrawn, signers, audit, offers, reputationVars>>

InitSimple == Deployed /\ audit = "calls" /\ offers = SimpleOffers

NextSimple ==
    \/ \E k \in keys, t \in offers : InitializeEscrow(k, t)
    \/ \E k \in keys, c \in Callers, a \in Amounts, ok \in BOOLEAN : AcceptEscrow(k, c, a, ok)
    \/ \E k \in keys, c \in Callers, ok \in BOOLEAN : CompleteTask(k, c, ok)
    \/ \E k \in keys, c \in Callers, ok \in BOOLEAN : CancelEscrow(k, c, ok)
    \/ \E k \in keys, c \in Callers, checked \in BOOLEAN : CheckTimeout(k, c, checked)
    \/ Tick

SpecSimple == InitSimple /\ [][NextSimple]_vars

\* ======================================================================
\* The reputation program (programs/reputation/src/lib.rs): a state account
\* with the global counters, one account per agent, one account per review.
\* The `has_one = state` and `has_one = agent` constraints name no field of
\* the account they sit on, and neither Agent nor Review stores the address
\* of a state account: nothing ties an agent to a state account.
\* ======================================================================

\* The variables of the escrow programs that the reputation programs leave
\* alone.
escrowVars == <<escrows, wallet, custody, now, keys, withdrawn, signers, audit, offers>>

\* Arguments of register_agent, as <<length of name, length of bio>>:
\* well-formed, a name and a bio one character over their bounds, and both at
\* their bounds.
Profiles == {<<8, 16>>, <<65, 16>>, <<8, 257>>, <<64, 256>>}
\* rating: u8 arguments of add_review and submit_review.
Ratings == {0, 1, 5, 6}
\* Arguments of add_review, as <<length of comment, length of skill_category>>.
Texts == {<<10, 4>>, <<501, 4>>, <<10, 33>>, <<500, 32>>}
\* new_score arguments of update_reputation.
Scores == {-1, 100, 101}

\* RegisterAgent: space = 8 + 64 + 256 + 8 + 8 + 8 + 8 + 8 + 1
AgentSpace == 8 + 64 + 256 + 8 + 8 + 8 + 8 + 8 + 1
\* AddReview: space = 8 + 32 + 32 + 1 + 500 + 32 + 8
ReviewSpace == 8 + 32 + 32 + 1 + 500 + 32 + 8

\* Serialized size of an Agent: discriminator, authority, two Strings
\* (4 + len each), five 8-byte numbers and a bool.
AgentBytes(g) == 8 + 32 + (4 + g.name) + (4 + g.bio) + 8 + 8 + 8 + 8 + 8 + 1

\* Serialized size of a Review: discriminator, two keys, the rating, two
\* Strings and the timestamp.
ReviewBytes(r) == 8 + 32 + 32 + 1 + (4 + r.comment) + (4 + r.skill_category) + 8

\* On exit the new account is serialized into the space it was created with.
ExitInto(bytes, space, result) ==
    IF result = "Ok" /\ bytes > space THEN DidNotSerialize ELSE result

\* ------------------------------------------------------------ initialize
\* Initialize accounts: #[account(init, ..)] state, no seeds.
ReputationInitializeCheck(st) == IF st # None THEN AlreadyExists ELSE "Ok"

ReputationInitializeStaged ==
    [initialized |-> TRUE, total_agents |-> 0, total_reviews |-> 0, reputation_sum |-> 0]

ReputationInitialize(s, caller) ==
    LET result == ReputationInitializeCheck(repStates[s])
    IN /\ repStates' = [repStates EXCEPT
                          ![s] = Persist(@, Some(ReputationInitializeStaged), result)]
       /\ last' = Call("reputation_initialize", s, caller, 0, result)
       /\ UNCHANGED <<escrowVars, agents, reviews, reputations, reviewAccounts>>

\* -------------------------------------------------------- register_agent
\* RegisterAgent accounts (state exists, agent is init), then the require!s.
RegisterAgentCheck(st, g, profile) ==
    IF st = None THEN NotInitialized
    ELSE IF g # None THEN AlreadyExists
    ELSE IF ~st[1].initialized THEN "NotInitialized"
    ELSE IF ~(profile[1] <= 64) THEN "NameTooLong"
    ELSE IF ~(profile[2] <= 256) THEN "BioTooLong"
    ELSE "Ok"

RegisterAgentStaged(caller, profile) ==
    [ authority |-> caller,
      name |-> profile[1],
      bio |-> profile[2],
      reputation_score |-> 0,
      total_ratings |-> 0,
      rating_sum |-> 0,
      created_at |-> now,
      updated_at |-> now,
      is_active |-> TRUE ]

RegisterAgent(s, a, caller, profile) ==
    LET st == repStates[s]
        staged == RegisterAgentStaged(caller, profile)
        result == ExitInto(AgentBytes(staged), AgentSpace,
                           RegisterAgentCheck(st, agents[a], profile))
    IN /\ agents' = [agents EXCEPT ![a] = Persist(@, Some(staged), result)]
       /\ repStates' = [repStates EXCEPT
                          ![s] = IF result = "Ok"
                                 THEN Some([st[1] EXCEPT !.total_agents = @ + 1])
                                 ELSE @]
       /\ last' = Call("register_agent", a, caller, 0, result)
       /\ UNCHANGED <<escrowVars, reviews, reputations, reviewAccounts>>

\* ------------------------------------------------------------ add_review
\* Variant: reviews are accepted for deactivated agents.
AddReviewCheckAnyAgent(st, g, rv, rating, text) ==
    IF st = None \/ g = None THEN NotInitialized
    ELSE IF rv # None THEN AlreadyExists
    ELSE IF ~(rating >= 1 /\ rating <= 5) THEN "InvalidRating"
    ELSE IF ~(text[1] <= 500) THEN "CommentTooLong"
    ELSE IF ~(text[2] <= 32) THEN "CategoryTooLong"
    ELSE "Ok"

\* AddReview accounts (state and agent exist, review is init), then the
\* four require!s in the handler's order.
AddReviewCheck(st, g, rv, rating, text) ==
    IF st = None \/ g = None THEN NotInitialized
    ELSE IF rv # None THEN AlreadyExists
    ELSE IF ~(rating >= 1 /\ rating <= 5) THEN "InvalidRating"
    ELSE IF ~(text[1] <= 500) THEN "CommentTooLong"
    ELSE IF ~(text[2] <= 32) THEN "CategoryTooLong"
    ELSE IF ~g[1].is_active THEN "AgentNotActive"
    ELSE "Ok"

\* The Review account add_review fills in.
AddReviewStaged(a, caller, rating, text) ==
    [ agent |-> a,
      reviewer |-> caller,
      rating |-> rating,
      comment |-> text[1],
      skill_category |-> text[2],
      created_at |-> now ]

\* The agent after add_review counted the rating.
AddReviewAgent(g, rating) ==
    [g EXCEPT !.total_ratings = @ + 1,
              !.rating_sum = @ + rating,
              !.reputation_score = (g.rating_sum + rating) \div (g.total_ratings + 1),
              !.updated_at = now]

\* The state account after add_review counted the rating.
AddReviewState(st, rating) ==
    [st EXCEPT !.total_reviews = @ + 1, !.reputation_sum = @ + rating]

AddReview(s, a, v, caller, rating, text) ==
    LET st == repStates[s]
        g == agents[a]
        staged == AddReviewStaged(a, caller, rating, text)
        result == ExitInto(ReviewBytes(staged), ReviewSpace,
                           AddReviewCheck(st, g, reviews[v], rating, text))
    IN /\ reviews' = [reviews EXCEPT ![v] = Persist(@, Some(staged), result)]
       /\ agents' = [agents EXCEPT
                       ![a] = IF result = "Ok" THEN Some(AddReviewAgent(g[1], rating))
                              ELSE @]
       /\ repStates' = [repStates EXCEPT
                          ![s] = IF result = "Ok" THEN Some(AddReviewState(st[1], rating))
                                 ELSE @]
       /\ last' = Call("add_review", a, caller, rating, result)
       /\ UNCHANGED <<escrowVars, reputations, reviewAccounts>>

\* ----------------------------------------------------- update_reputation
\* u64::saturating_sub
SaturatingSub(x, y) == IF x >= y THEN x - y ELSE 0

\* UpdateReputation accounts (state and agent exist), then the require!.
UpdateReputationCheck(st, g, new_score) ==
    IF st = None \/ g = None THEN NotInitialized
    ELSE IF ~(new_score >= 0 /\ new_score <= 100) THEN "InvalidScore"
    ELSE "Ok"

UpdateReputation(s, a, caller, new_score) ==
    LET st == repStates[s]
        g == agents[a]
        result == UpdateReputationCheck(st, g, new_score)
    IN /\ agents' = [agents EXCEPT
                       ![a] = IF result = "Ok"
                              THEN Some([g[1] EXCEPT !.reputation_score = new_score,
                                                     !.updated_at = now])
                              ELSE @]
       /\ repStates' = [repStates EXCEPT
                          ![s] = IF result = "Ok"
                                 THEN Some([st[1] EXCEPT
                                       !.reputation_sum =
                                           SaturatingSub(@, g[1].reputation_score) + new_score])
                                 ELSE @]
       /\ last' = Call("update_reputation", a, caller, 0, result)
       /\ UNCHANGED <<escrowVars, reviews, reputations, reviewAccounts>>

\* ------------------------------------------------------ deactivate_agent
\* DeactivateAgent accounts (agent exists, authority: any Signer), then
\* require!(agent.is_active, AgentAlreadyInactive).
DeactivateAgentCheck(g) ==
    IF g = None THEN NotInitialized
    ELSE IF ~g[1].is_active THEN "AgentAlreadyInactive"
    ELSE "Ok"

DeactivateAgent(a, caller) ==
    LET g == agents[a]
        result == DeactivateAgentCheck(g)
    IN /\ agents' = [agents EXCEPT
                       ![a] = IF result = "Ok"
                              THEN Some([g[1] EXCEPT !.is_active = FALSE,
                                                     !.updated_at = now])
                              ELSE @]
       /\ last' = Call("deactivate_agent", a, caller, 0, result)
       /\ UNCHANGED <<escrowVars, repStates, reviews, reputations, reviewAccounts>>

\* -------------------------------------------------- get_agent_reputation
GetAgentReputation(a, caller) ==
    LET result == IF agents[a] = None THEN NotInitialized ELSE "Ok"
    IN /\ last' = Call("get_agent_reputation", a, caller, 0, result)
       /\ UNCHANGED <<escrowVars, reputationVars>>

InitReputation == Deployed /\ audit = "calls" /\ offers = {GoodTerms}

NextReputation ==
    \/ \E s \in StateAccounts, c \in ReputationSigners : ReputationInitialize(s, c)
    \/ \E s \in StateAccounts, a \in AgentAccounts, c \in ReputationSigners,
          p \in Profiles : RegisterAgent(s, a, c, p)
    \/ \E s \in StateAccounts, a \in AgentAccounts, v \in ReviewAddresses,
          c \in ReputationSigners, r \in Ratings, t \in Texts :
          AddReview(s, a, v, c, r, t)
    \/ \E s \in StateAccounts, a \in AgentAccounts, c \in ReputationSigners,
          n \in Scores : UpdateReputation(s, a, c, n)
    \/ \E a \in AgentAccounts, c \in ReputationSigners : DeactivateAgent(a, c)
    \/ \E a \in AgentAccounts, c \in ReputationSigners : GetAgentReputation(a, c)

SpecReputation == InitReputation /\ [][NextReputation]_vars

\* ======================================================================
\* The on-chain reputation program (contracts/escrow/programs/reputation.rs):
\* one ReputationAccount PDA per agent (seeds = [REPUTATION_SEED, agent]) and
\* one ReviewAccount PDA per review_id.  The f64 fields are kept as exact
\* fractions <<numerator, denominator>> in lowest terms.
\* ======================================================================

\* Votes cast in a run (positive_votes and negative_votes are u32 counters).
MaxVotes == 1

RECURSIVE Gcd(_, _)
Gcd(a, b) == IF b = 0 THEN a ELSE Gcd(b, a % b)

\* The fraction p / q (p >= 0, q > 0) in lowest terms.
Ratio(p, q) == LET g == Gcd(p, q) IN <<p \div g, q \div g>>

\* f64::round on a fraction that is not negative: halves go away from zero.
Round(x) == (2 * x[1] + x[2]) \div (2 * x[2])

\* u32 / f64 comparison helper: (total_reviews as f64 / 100.0).min(1.0),
\* times 100.
VolumePercent(total_reviews) == IF total_reviews < 100 THEN total_reviews ELSE 100

\* fn calculate_score: (rating/5 * 0.4 + on_time/100 * 0.3 + volume * 0.3)
\* * 100, rounded to one decimal.  Ten times the score is
\* 80 * rating + 3 * on_time + 3 * volume percent, rounded.
CalculateScore(average_rating, on_time_percentage, total_reviews) ==
    LET r == average_rating
        o == on_time_percentage
        tenfold == Ratio(80 * r[1] * o[2] + 3 * o[1] * r[2]
                            + 3 * VolumePercent(total_reviews) * r[2] * o[2],
                         r[2] * o[2])
    IN Ratio(Round(tenfold), 10)

\* fn not_initialized, on the account `init` has just created (all zero).
NotInitializedCheck(acct) ==
    IF acct # None THEN AlreadyExists ELSE "Ok"

InitializeReputationStaged(agent) ==
    [ agent |-> agent,
      total_reviews |-> 0,
      average_rating |-> Ratio(0, 1),
      on_time_percentage |-> Ratio(100, 1),
      reputation_score |-> Ratio(50, 1),
      positive_votes |-> 0,
      negative_votes |-> 0,
      review_count |-> 0,
      created_at |-> now,
      updated_at |-> now ]

InitializeReputation(agent, payer) ==
    LET result == NotInitializedCheck(reputations[agent])
    IN /\ reputations' = [reputations EXCEPT
                            ![agent] = Persist(@, Some(InitializeReputationStaged(agent)),
                                               result)]
       /\ last' = Call("initialize_reputation", agent, payer, 0, result)
       /\ UNCHANGED <<escrowVars, repStates, agents, reviews, reviewAccounts>>

\* fn reputation_exists, after the account was found at its address.
ReputationExists(acct) ==
    IF acct = None THEN NotInitialized
    ELSE IF ~(acct[1].updated_at > 0) THEN "ReputationNotFound"
    ELSE "Ok"

\* SubmitReview accounts (reputation_account exists, review_account is
\* init), reputation_exists, then require!(rating in 1..=5).
SubmitReviewCheck(rep, rev, rating) ==
    IF rep = None THEN NotInitialized
    ELSE IF rev # None THEN AlreadyExists
    ELSE IF ReputationExists(rep) # "Ok" THEN ReputationExists(rep)
    ELSE IF ~(rating >= 1 /\ rating <= 5) THEN "InvalidRating"
    ELSE "Ok"

\* The ReviewAccount submit_review fills in.
SubmitReviewStaged(review_id, provider, reviewer, rating, completed_on_time) ==
    [ review_id |-> review_id,
      provider |-> provider,
      reviewer |-> reviewer,
      rating |-> rating,
      completed_on_time |-> completed_on_time,
      comment_hash |-> "hash",
      positive_votes |-> 0,
      negative_votes |-> 0,
      timestamp |-> now ]

\* on_time_percentage after a review: rewritten only when the review was
\* completed on time, as (old * (total_reviews - 1) + 100) / total_reviews.
OnTimePercentage(old, total_reviews, completed_on_time) ==
    IF completed_on_time
    THEN Ratio(old[1] * (total_reviews - 1) + 100 * old[2], old[2] * total_reviews)
    ELSE old

\* The "Update reputation" part of submit_review.
SubmitReviewReputation(rep, rating, completed_on_time) ==
    LET total == rep.total_reviews + 1
        avg == rep.average_rating
        \* new_total = total_reviews * average_rating + rating
        new_total == Ratio(rep.total_reviews * avg[1] + rating * avg[2], avg[2])
        average == Ratio(new_total[1], new_total[2] * total)
        on_time == OnTimePercentage(rep.on_time_percentage, total, completed_on_time)
    IN [rep EXCEPT !.total_reviews = total,
                   !.average_rating = average,
                   !.on_time_percentage = on_time,
                   !.reputation_score = CalculateScore(average, on_time, total),
                   !.updated_at = now]

SubmitReview(review_id, provider, reviewer, rating, completed_on_time) ==
    LET rep == reputations[provider]
        result == SubmitReviewCheck(rep, reviewAccounts[review_id], rating)
    IN /\ reviewAccounts' =
             [reviewAccounts EXCEPT
                ![review_id] = Persist(@, Some(SubmitReviewStaged(review_id, provider,
                                          reviewer, rating, completed_on_time)), result)]
       /\ reputations' =
             [reputations EXCEPT
                ![provider] = IF result = "Ok"
                              THEN Some(SubmitReviewReputation(rep[1], rating,
                                                               completed_on_time))
                              ELSE @]
       /\ last' = Call("submit_review", provider, reviewer, rating, result)
       /\ UNCHANGED <<escrowVars, repStates, agents, reviews>>

UpdateScore(agent, authority) ==
    LET rep == reputations[agent]
        result == ReputationExists(rep)
    IN /\ reputations' =
             [reputations EXCEPT
                ![agent] = IF result = "Ok"
                           THEN Some([rep[1] EXCEPT
                                   !.reputation_score =
                                       CalculateScore(rep[1].average_rating,
                                                      rep[1].on_time_percentage,
                                                      rep[1].total_reviews),
                                   !.updated_at = now])
                           ELSE @]
       /\ last' = Call("update_score", agent, authority, 0, result)
       /\ UNCHANGED <<escrowVars, repStates, agents, reviews, reviewAccounts>>

\* Votes recorded on all reviews.
RECURSIVE VotesCast(_)
VotesCast(S) ==
    IF S = {} THEN 0
    ELSE LET i == CHOOSE x \in S : TRUE
         IN (IF reviewAccounts[i] = None THEN 0
             ELSE reviewAccounts[i][1].positive_votes
                  + reviewAccounts[i][1].negative_votes)
            + VotesCast(S \ {i})

\* fn review_exists, after the account was found at its address.
ReviewExists(rev) ==
    IF rev = None THEN NotInitialized
    ELSE IF ~(rev[1].timestamp > 0) THEN "ReviewNotFound"
    ELSE "Ok"

VoteReview(review_id, voter, vote_up) ==
    LET rev == reviewAccounts[review_id]
        result == ReviewExists(rev)
    IN /\ result = "Ok" => VotesCast(ReviewIds) < MaxVotes
       /\ reviewAccounts' =
             [reviewAccounts EXCEPT
                ![review_id] = IF result # "Ok" THEN @
                               ELSE IF vote_up
                               THEN Some([rev[1] EXCEPT !.positive_votes = @ + 1])
                               ELSE Some([rev[1] EXCEPT !.negative_votes = @ + 1])]
       /\ last' = Call("vote_review", review_id, voter, 0, result)
       /\ UNCHANGED <<escrowVars, repStates, agents, reviews, reputations>>

GetReputation(agent, caller) ==
    LET result == ReputationExists(reputations[agent])
    IN /\ last' = Call("get_reputation", agent, caller, 0, result)
       /\ UNCHANGED <<escrowVars, reputationVars>>

\* The program is deployed, no account of it exists, and the cluster's clock
\* reads a positive unix time.
InitReviews ==
    /\ escrows = [k \in Providers |-> NoRecord]
    /\ wallet = [a \in Actors |-> InitBal]
    /\ custody = [k \in Providers |-> 0]
    /\ now = 1
    /\ keys = {"P"}
    /\ last = [op |-> "none", key |-> "P", caller |-> "P", amount |-> 0, result |-> "Ok"]
    /\ withdrawn = [k \in Providers |-> <<>>]
    /\ signers = [k \in Providers |-> {}]
    /\ NoReputationAccounts
    /\ audit = "calls"
    /\ offers = {GoodTerms}

NextReviews ==
    \/ \E a \in Providers, c \in ReputationSigners : InitializeReputation(a, c)
    \/ \E i \in ReviewIds, a \in Providers, c \in ReputationSigners, r \in Ratings,
          t \in BOOLEAN : SubmitReview(i, a, c, r, t)
    \/ \E a \in Providers, c \in ReputationSigners : UpdateScore(a, c)
    \/ \E i \in ReviewIds, c \in ReputationSigners, up \in BOOLEAN : VoteReview(i, c, up)
    \/ \E a \in Providers, c \in ReputationSigners : GetReputation(a, c)

SpecReviews == InitReviews /\ [][NextReviews]_vars

\* ======================================================================
\* Properties
\* ======================================================================

\* The step processed an instruction (every instruction rewrites `last`
\* and leaves the clock alone).
Processed(k) == now' = now /\ last'.key = k

\* No token moved in the step.
NoFundsMove == wallet' = wallet /\ custody' = custody /\ withdrawn' = withdrawn

RECURSIVE SumAmounts(_)
SumAmounts(log) ==
    IF log = <<>> THEN 0 ELSE Head(log).amount + SumAmounts(Tail(log))

StateGated == {"fund", "complete", "release", "refund", "dispute",
               "resolve_dispute_release", "resolve_dispute_refund"}

Settling == {"release", "refund", "resolve_dispute_release", "resolve_dispute_refund"}

\* C1: no party can drain custody unilaterally.  If the custody funds were
\* paid out to the provider, then since funding somebody other than the
\* provider has signed; if they were returned to the renter, somebody other
\* than the renter has signed.  (A party that is also the other party or the
\* arbiter is not acting alone.)
C1_NoUnilateralDrain ==
    \A k \in Providers :
        LET e == escrows[k]
        IN \A i \in 1..Len(withdrawn[k]) :
              withdrawn[k][i].amount > 0 =>
                /\ (withdrawn[k][i].to = e.provider /\ e.provider \notin {e.renter, Arbiter})
                      => ~(signers[k] \subseteq {e.provider})
                /\ (withdrawn[k][i].to = e.renter /\ e.renter \notin {e.provider, Arbiter})
                      => ~(signers[k] \subseteq {e.renter})

\* C2 as stated: once a record is Released or Refunded every later instruction
\* on it fails, each state-gated one with InvalidState, and the record and
\* all balances stay as they were.
C2_TerminalFailsInvalidState ==
    [][\A k \in Providers :
          (IsTerminal(escrows[k]) /\ Processed(k)) =>
              /\ last'.result # "Ok"
              /\ last'.op \in StateGated => last'.result = InvalidState
              /\ escrows'[k] = escrows[k]
              /\ NoFundsMove]_vars

\* C2 amended: once a record is Released or Refunded every later instruction
\* on it fails and the record and all balances stay as they were; the
\* state-gated instructions fail with InvalidState, except that release signed
\* by anyone other than the record's renter is rejected by the renter check,
\* which runs first, with Unauthorized; initialize fails with AlreadyExists.
C2_TerminalNeverExited ==
    [][\A k \in Providers :
          (IsTerminal(escrows[k]) /\ Processed(k)) =>
              /\ last'.result # "Ok"
              /\ last'.op \in StateGated =>
                    last'.result = IF last'.op = "release"
                                       /\ last'.caller # escrows[k].renter
                                    THEN Unauthorized ELSE InvalidState
              /\ last'.op = "initialize" => last'.result = AlreadyExists
              /\ escrows'[k] = escrows[k]
              /\ NoFundsMove]_vars

\* A Released record on which a release signed by its provider, who is not
\* its renter, has just been rejected by the renter check.
C2_Witness ==
    /\ escrows["P"].state = "Released"
    /\ escrows["P"].renter = "R"
    /\ last = Call("release", "P", "P", 0, Unauthorized)

C4_AmountSetOnce ==
    /\ [](\A k \in Providers : escrows[k].state = "Created" => escrows[k].amount = 0)
    /\ [][\A k \in Providers :
             /\ (escrows[k] = NoRecord /\ escrows'[k] # NoRecord)
                   => (escrows'[k].state = "Created" /\ escrows'[k].amount = 0)
             /\ (escrows[k] # NoRecord /\ escrows'[k].amount # escrows[k].amount)
                   => /\ escrows[k].state = "Created"
                      /\ last' = Call("fund", k, last'.caller, escrows'[k].amount, "Ok")
             /\ (escrows[k].state = "Created" /\ escrows'[k].state # "Created")
                   => /\ last'.op = "fund" /\ last'.result = "Ok"
                      /\ escrows'[k].amount = last'.amount
             /\ escrows[k].state \in EscrowState \ {"Created"}
                   => escrows'[k].amount = escrows[k].amount]_vars

\* A record funded with 1 and then settled through a dispute, amount still 1.
C4_Witness ==
    /\ escrows["P"].state \in {"Released", "Refunded"}
    /\ escrows["P"].dispute_reason # None
    /\ escrows["P"].amount = 1

RECURSIVE SumOver(_, _)
SumOver(f, S) ==
    IF S = {} THEN 0
    ELSE LET x == CHOOSE y \in S : TRUE IN f[x] + SumOver(f, S \ {x})

\* C6: state and transfer always agree.  Custody holds exactly the record's
\* amount while it is Funded or Disputed and nothing otherwise; a record
\* becomes Funded exactly together with the renter's deposit and terminal
\* exactly together with the single withdrawal; custody never changes while
\* the state does not; and the tokens in wallets and custody are conserved.
C6_StateMatchesCustody ==
    /\ [](/\ \A k \in Providers :
               custody[k] = IF escrows[k].state \in {"Funded", "Disputed"}
                            THEN escrows[k].amount ELSE 0
          /\ SumOver(wallet, Actors) + SumOver(custody, Providers)
                = InitBal * Cardinality(Actors))
    /\ [][\A k \in Providers :
             /\ (escrows[k].state = "Created" /\ escrows'[k].state = "Funded")
                   => /\ custody'[k] = custody[k] + escrows'[k].amount
                      /\ wallet'[escrows'[k].renter]
                            = wallet[escrows'[k].renter] - escrows'[k].amount
             /\ (~IsTerminal(escrows[k]) /\ IsTerminal(escrows'[k]))
                   => /\ custody'[k] = custody[k] - escrows[k].amount
                      /\ Len(withdrawn'[k]) = Len(withdrawn[k]) + 1
             /\ (custody'[k] # custody[k] \/ withdrawn'[k] # withdrawn[k])
                   => escrows'[k].state # escrows[k].state]_vars

\* A record funded with 1 by R and refunded: custody empty again, the renter
\* holds what it started with, one withdrawal logged.
C6_Witness ==
    /\ escrows["P"].state = "Refunded"
    /\ escrows["P"].renter = "R"
    /\ escrows["P"].amount = 1
    /\ custody["P"] = 0
    /\ wallet["R"] = InitBal
    /\ Len(withdrawn["P"]) = 1

\* C7: release on a Funded record signed by anyone other than the renter
\* recorded at funding fails with Unauthorized; the record stays as it was and
\* no funds move.
C7_ReleaseOnlyByRenter ==
    [][\A k \in Providers :
          (/\ escrows[k].state = "Funded"
           /\ Processed(k)
           /\ last'.op = "release"
           /\ last'.caller # escrows[k].renter)
          => /\ last'.result = Unauthorized
             /\ escrows'[k] = escrows[k]
             /\ NoFundsMove]_vars

\* A record funded with 1 by R on which a release signed by A was just
\* rejected: still Funded, the funds still in custody.
C7_Witness ==
    /\ last = Call("release", "P", "A", 0, Unauthorized)
    /\ escrows["P"].state = "Funded"
    /\ escrows["P"].renter = "R"
    /\ custody["P"] = 1

\* C8: refund on a Funded record (one holding funds) signed by anyone other than the record's
\* provider fails with Unauthorized; the record stays Funded and no funds
\* move.
C8_RefundOnlyByProvider ==
    [][\A k \in Providers :
          (/\ escrows[k].state = "Funded"
           /\ escrows[k].amount > 0
           /\ Processed(k)
           /\ last'.op = "refund"
           /\ last'.caller # escrows[k].provider)
          => /\ last'.result = Unauthorized
             /\ escrows'[k].state = "Funded"
             /\ NoFundsMove]_vars

\* C9: resolve_dispute_release and resolve_dispute_refund on a Disputed
\* record (one holding funds) signed by anyone other than the configured arbiter fail with
\* Unauthorized; the record stays Disputed and no funds move.
C9_ResolveOnlyByArbiter ==
    [][\A k \in Providers :
          (/\ escrows[k].state = "Disputed"
           /\ escrows[k].amount > 0
           /\ Processed(k)
           /\ last'.op \in {"resolve_dispute_release", "resolve_dispute_refund"}
           /\ last'.caller # Arbiter)
          => /\ last'.result = Unauthorized
             /\ escrows'[k].state = "Disputed"
             /\ NoFundsMove]_vars

\* C10: dispute on a Funded record (one holding funds) signed by an identity that is neither its
\* provider nor its renter fails with Unauthorized; the record stays Funded
\* and dispute_reason and disputed_at stay unset.
C10_DisputeOnlyByParty ==
    [][\A k \in Providers :
          (/\ escrows[k].state = "Funded"
           /\ escrows[k].amount > 0
           /\ Processed(k)
           /\ last'.op = "dispute"
           /\ last'.caller \notin {escrows[k].provider, escrows[k].renter})
          => /\ last'.result = Unauthorized
             /\ escrows'[k].state = "Funded"
             /\ escrows'[k].dispute_reason = None
             /\ escrows'[k].disputed_at = None]_vars

\* The state machine: from-state, instruction, to-state.
Edges ==
    { <<"Created", "fund", "Funded">>,
      <<"Funded", "release", "Released">>,
      <<"Funded", "refund", "Refunded">>,
      <<"Funded", "dispute", "Disputed">>,
      <<"Disputed", "resolve_dispute_release", "Released">>,
      <<"Disputed", "resolve_dispute_refund", "Refunded">> }

\* C11: a record's state changes only by a successful instruction and only
\* along one of the six edges, and every successful fund, release, refund,
\* dispute or resolve instruction takes its edge; complete changes neither
\* the record nor any balance; Created is never re-entered once left.
C11_OnlySixEdges ==
    [][\A k \in Providers :
          LET from == escrows[k].state
              to == escrows'[k].state
          IN /\ (escrows[k] # NoRecord /\ to # from)
                   => /\ Processed(k) /\ last'.result = "Ok"
                      /\ <<from, last'.op, to>> \in Edges
             /\ (Processed(k) /\ last'.result = "Ok"
                    /\ last'.op \notin {"complete", "initialize"})
                   => <<from, last'.op, to>> \in Edges
             /\ (Processed(k) /\ last'.op = "complete")
                   => (escrows' = escrows /\ NoFundsMove)
             /\ from \in EscrowState \ {"Created"} => to # "Created"]_vars

\* A dispute was just resolved by refund: the record went
\* Created, Funded, Disputed, Refunded.
C11_Witness ==
    /\ last = Call("resolve_dispute_refund", "P", "A", 0, "Ok")
    /\ escrows["P"].state = "Refunded"
    /\ escrows["P"].disputed_at # None

\* The state each mutating instruction requires.
RequiredState(op) ==
    CASE op = "fund" -> "Created"
      [] op \in {"release", "refund", "dispute"} -> "Funded"
      [] op \in {"resolve_dispute_release", "resolve_dispute_refund"} -> "Disputed"

Mutating == {"fund", "release", "refund", "dispute",
             "resolve_dispute_release", "resolve_dispute_refund"}

\* C12 as stated: every mutating instruction invoked on a record that is not
\* in its required state fails with InvalidState, and nothing changes.
C12_WrongStateFailsInvalidState ==
    [][\A k \in Providers :
          (/\ escrows[k] # NoRecord
           /\ Processed(k)
           /\ last'.op \in Mutating
           /\ escrows[k].state # RequiredState(last'.op))
          => /\ last'.result = InvalidState
             /\ escrows' = escrows
             /\ NoFundsMove]_vars

\* C12 amended: every mutating instruction invoked on a record that is not
\* in its required state fails and nothing changes; it fails with
\* InvalidState, except that release signed by anyone other than the record's
\* renter (so every release on a Created record) is rejected by the renter
\* check, which runs first, with Unauthorized.  A second fund on a Funded
\* record fails with InvalidState and leaves renter and amount as they were.
C12_WrongStateRejected ==
    [][\A k \in Providers :
          (/\ escrows[k] # NoRecord
           /\ Processed(k)
           /\ last'.op \in Mutating
           /\ escrows[k].state # RequiredState(last'.op))
          => /\ last'.result = IF last'.op = "release"
                                   /\ last'.caller # escrows[k].renter
                                THEN Unauthorized ELSE InvalidState
             /\ escrows' = escrows
             /\ NoFundsMove]_vars

\* A record funded with 1 by R on which a second fund, signed by A, has just
\* failed: renter and amount are those of the first fund, A's tokens untouched.
C12_Witness ==
    /\ last = Call("fund", "P", "A", 1, InvalidState)
    /\ escrows["P"].state = "Funded"
    /\ escrows["P"].renter = "R"
    /\ escrows["P"].amount = 1
    /\ custody["P"] = 1
    /\ wallet["A"] = InitBal

\* C13: in every reachable state a record's amount is positive exactly when
\* the record is Funded, Released, Refunded or Disputed (so a fund of 0 never
\* takes a record out of Created).
C13_AmountPositiveIffFunded ==
    \A k \in Providers :
        escrows[k] # NoRecord =>
            (escrows[k].amount > 0
                <=> escrows[k].state \in {"Funded", "Released", "Refunded", "Disputed"})

\* C14: a record's renter is the default identity exactly when the record is
\* Created; the renter is written only by the successful fund, which sets it
\* to its signer, and no later instruction changes it.
C14_RenterSetOnce ==
    /\ [](\A k \in Providers :
             escrows[k] # NoRecord =>
                 (escrows[k].renter = DefaultPubkey <=> escrows[k].state = "Created"))
    /\ [][\A k \in Providers :
             /\ (escrows[k] # NoRecord /\ escrows'[k].renter # escrows[k].renter)
                   => /\ escrows[k].state = "Created"
                      /\ last' = Call("fund", k, escrows'[k].renter, escrows'[k].amount, "Ok")
             /\ (escrows[k].state = "Created" /\ escrows'[k].state # "Created")
                   => escrows'[k].renter = last'.caller
             /\ escrows[k].state \in EscrowState \ {"Created"}
                   => escrows'[k].renter = escrows[k].renter]_vars

\* A record funded by R and then disputed by its provider: the renter is
\* still R.
C14_Witness ==
    /\ last = Call("dispute", "P", "P", 0, "Ok")
    /\ escrows["P"].state = "Disputed"
    /\ escrows["P"].renter = "R"

\* C15: dispute_reason is absent while a record is Created or Funded and
\* present while it is Disputed; a record settled from Funded (by release or
\* refund) has none, a record settled from Disputed keeps the reason recorded
\* by dispute, and a settled record's reason never changes.
C15_DisputeReasonPresence ==
    /\ [](\A k \in Providers :
             /\ escrows[k].state \in {"Created", "Funded"}
                   => escrows[k].dispute_reason = None
             /\ escrows[k].state = "Disputed" => escrows[k].dispute_reason # None)
    /\ [][\A k \in Providers :
             /\ (escrows[k].state = "Funded" /\ IsTerminal(escrows'[k]))
                   => escrows'[k].dispute_reason = None
             /\ (escrows[k].state = "Disputed" /\ IsTerminal(escrows'[k]))
                   => /\ escrows'[k].dispute_reason # None
                      /\ escrows'[k].dispute_reason = escrows[k].dispute_reason
             /\ IsTerminal(escrows[k])
                   => escrows'[k].dispute_reason = escrows[k].dispute_reason]_vars

\* A dispute with an 11-character reason was just resolved by refund: the
\* Refunded record still carries the reason.
C15_Witness ==
    /\ last.op = "resolve_dispute_refund" /\ last.result = "Ok"
    /\ escrows["P"].state = "Refunded"
    /\ escrows["P"].dispute_reason = Some(11)

\* C16: a successful release (on a Funded record, by its renter) and a
\* successful resolve_dispute_release (on a Disputed record) take exactly the
\* record's amount out of custody and add it to the wallet of the record's
\* provider and to no other wallet, set the state to Released and set
\* completed_at, changing nothing else of the record; a record Released
\* whose provider and renter differ leaves the provider amount above and the
\* renter amount below their starting balance, and custody empty.
C16_ReleasePaysProvider ==
    /\ [][\A k \in Providers :
             (/\ Processed(k)
              /\ last'.op \in {"release", "resolve_dispute_release"}
              /\ last'.result = "Ok")
             => LET e == escrows[k]
                IN /\ e.state = IF last'.op = "release" THEN "Funded" ELSE "Disputed"
                   /\ last'.op = "release" => last'.caller = e.renter
                   /\ custody' = [custody EXCEPT ![k] = @ - e.amount]
                   /\ wallet' = [wallet EXCEPT ![e.provider] = @ + e.amount]
                   /\ withdrawn'[k] = Append(withdrawn[k],
                                             [to |-> e.provider, amount |-> e.amount])
                   /\ escrows'[k] = [e EXCEPT !.state = "Released",
                                              !.completed_at = Some(now)]]_vars
    /\ [](\A k \in Providers :
             (escrows[k].state = "Released" /\ escrows[k].provider # escrows[k].renter)
             => /\ wallet[escrows[k].provider] = InitBal + escrows[k].amount
                /\ wallet[escrows[k].renter] = InitBal - escrows[k].amount
                /\ custody[k] = 0)

\* The arbiter account A signed the resolution in favour of the provider: the
\* unit that R deposited is in P's wallet, not in A's.
C16_Witness ==
    /\ last = Call("resolve_dispute_release", "P", "A", 0, "Ok")
    /\ escrows["P"].state = "Released" /\ escrows["P"].renter = "R"
    /\ escrows["P"].amount = 1 /\ escrows["P"].completed_at # None
    /\ wallet["P"] = InitBal + 1 /\ wallet["R"] = InitBal - 1
    /\ wallet["A"] = InitBal /\ custody["P"] = 0

C18_DisputeFrame ==
    [][\A k \in Providers :
          (Processed(k) /\ last'.op = "dispute" /\ last'.result = "Ok")
          => /\ NoFundsMove
             /\ escrows[k].state = "Funded"
             /\ escrows' = [escrows EXCEPT
                              ![k] = [@ EXCEPT !.state = "Disputed",
                                               !.dispute_reason = escrows'[k].dispute_reason,
                                               !.disputed_at = Some(now)]]
             /\ escrows'[k].dispute_reason # None]_vars

\* The renter R has just disputed a record holding one unit: the unit is
\* still in custody and the record is not completed.
C18_Witness ==
    /\ last = Call("dispute", "P", "R", 0, "Ok")
    /\ escrows["P"].state = "Disputed" /\ escrows["P"].dispute_reason = Some(11)
    /\ escrows["P"].disputed_at # None /\ escrows["P"].completed_at = None
    /\ escrows["P"].amount = 1 /\ custody["P"] = 1
    /\ wallet["R"] = InitBal - 1 /\ wallet["P"] = InitBal

\* Error kinds the specification names for rejected input; EscrowError
\* (lib.rs 438-450) declares neither.
InvalidReason == "InvalidReason"

InvalidTerms == "InvalidTerms"

\* C19: dispute on a Funded record (one holding funds), signed by its
\* provider or its renter, with an empty reason or a reason longer than 256
\* characters fails with InvalidReason and leaves the record as it was:
\* Funded, with no dispute_reason.
C19_BadReasonRejected ==
    [][\A k \in Providers, c \in Actors, r \in Reasons :
          (/\ escrows[k].state = "Funded"
           /\ escrows[k].amount > 0
           /\ c \in {escrows[k].provider, escrows[k].renter}
           /\ (r = 0 \/ r > MAX_DISPUTE_REASON_LEN)
           /\ Dispute(k, c, r))
          => /\ last'.result = InvalidReason
             /\ escrows'[k] = escrows[k]
             /\ escrows'[k].dispute_reason = None]_vars

\* C20: initialize with duration_seconds <= 0, a skill_name longer than 64
\* characters or a metadata_uri longer than 256 characters fails with
\* InvalidTerms and creates no record; so every existing record has
\* duration_seconds > 0, skill_name of at most 64 and metadata_uri of at most
\* 256 characters.
C20_BadTermsRejected ==
    /\ [][\A k \in Providers, t \in AllTerms :
             (/\ \/ t.duration_seconds <= 0
                 \/ t.skill_name > MAX_SKILL_NAME_LEN
                 \/ t.metadata_uri > MAX_METADATA_URI_LEN
              /\ Initialize(k, t))
             => /\ last'.result = InvalidTerms
                /\ escrows' = escrows]_vars
    /\ [](\A k \in Providers :
             escrows[k] # NoRecord
             => /\ escrows[k].duration_seconds > 0
                /\ escrows[k].skill_name <= MAX_SKILL_NAME_LEN
                /\ escrows[k].metadata_uri <= MAX_METADATA_URI_LEN)

\* C21: initialize for a provider succeeds, yielding a record in Created with
\* amount 0, the default renter and created_at = now, exactly when the
\* provider has no record or only a settled one (Released or Refunded); while
\* the provider's record is Created, Funded or Disputed it fails with
\* AlreadyExists and leaves every record untouched.
C21_CreateAgainAfterSettlement ==
    [][\A k \in Providers :
          (/\ Processed(k)
           /\ last'.op = "initialize"
           /\ IsTerminal(escrows[k]) => escrows[k].amount > 0)
          => IF escrows[k] = NoRecord \/ IsTerminal(escrows[k])
             THEN /\ last'.result = "Ok"
                  /\ escrows'[k].state = "Created"
                  /\ escrows'[k].amount = 0
                  /\ escrows'[k].renter = DefaultPubkey
                  /\ escrows'[k].created_at = now
             ELSE /\ last'.result = AlreadyExists
                  /\ escrows' = escrows]_vars

\* C22 (as stated): check_timeout on a record in any state returns true
\* exactly when now >= created_at + duration_seconds, false otherwise, and
\* changes neither the record nor any balance.
C22_CheckTimeoutAnyState ==
    [][\A k \in Providers :
          (escrows[k] # NoRecord /\ Processed(k) /\ last'.op = "check_timeout")
          => /\ last'.result =
                   IF now >= escrows[k].created_at + escrows[k].duration_seconds
                   THEN "Ok(true)" ELSE "Ok(false)"
             /\ escrows' = escrows
             /\ NoFundsMove]_vars

\* C22 (amended): check_timeout never changes a record or a balance; on a
\* Funded record whose created_at + duration_seconds fits an i64 it returns
\* true exactly when now >= created_at + duration_seconds and false
\* otherwise; on a record in any other state it fails with InvalidState.
C22_CheckTimeoutWhenFunded ==
    [][\A k \in Providers :
          (Processed(k) /\ last'.op = "check_timeout")
          => LET e == escrows[k]
             IN /\ escrows' = escrows
                /\ NoFundsMove
                /\ (e # NoRecord /\ e.state # "Funded") => last'.result = InvalidState
                /\ (e.state = "Funded" /\ e.created_at + e.duration_seconds <= MaxI64)
                      => last'.result =
                            IF now >= e.created_at + e.duration_seconds
                            THEN "Ok(true)" ELSE "Ok(false)"]_vars

\* The query was answered true at the very second the duration ran out.
C22_Witness ==
    /\ last = Call("check_timeout", "P", "A", 0, "Ok(true)")
    /\ escrows["P"].state = "Funded"
    /\ escrows["P"].created_at = 0 /\ escrows["P"].duration_seconds = 1
    /\ now = 1

\* The step processed an instruction on an existing record right after
\* another instruction on the same record (clock ticks aside): `last` is the
\* earlier of the two calls and last' the later.
Consecutive(k, first, second) ==
    /\ escrows[k] # NoRecord
    /\ Processed(k)
    /\ last.key = k /\ last.op = first
    /\ last'.op = second

\* Failures caused by the environment, not by the state of the record.
Rejections == {TransferFailed, DidNotSerialize}

\* C23 (as stated): of a fund (of a positive amount) and a dispute run one
\* after the other on the same record, in either order, exactly one succeeds
\* (rejections by the ledger or for lack of account space aside).
C23_ExactlyOneWins ==
    [][\A k \in Providers :
          (/\ Consecutive(k, "fund", "dispute") \/ Consecutive(k, "dispute", "fund")
           /\ (IF last'.op = "fund" THEN last' ELSE last).amount > 0
           /\ last.result \notin Rejections
           /\ last'.result \notin Rejections)
          => (last.result = "Ok") # (last'.result = "Ok")]_vars

\* C23 (amended): a fund and a dispute on the same record are serialized
\* and each sees the state the other left.  With dispute first at most one
\* succeeds: on a Created record dispute fails with InvalidState and fund
\* then proceeds, and after a successful dispute fund fails with
\* InvalidState.  With fund first, a successful fund is followed by a
\* successful dispute (both succeed, the record ends Disputed), and a fund
\* that failed with InvalidState is followed by a successful dispute exactly
\* when the record is Funded.
C23_FundDisputeSerialized ==
    [][\A k \in Providers :
          /\ Consecutive(k, "dispute", "fund")
                => /\ ~(last.result = "Ok" /\ last'.result = "Ok")
                   /\ last.result = "Ok" => last'.result = InvalidState
                   /\ (escrows[k].state = "Created" /\ last'.result \notin Rejections)
                         => (last.result = InvalidState /\ last'.result = "Ok")
          /\ (Consecutive(k, "fund", "dispute") /\ last'.result \notin Rejections)
                => /\ last.result = "Ok"
                         => (last'.result = "Ok" /\ escrows'[k].state = "Disputed")
                   /\ last.result = InvalidState
                         => (last'.result = "Ok" <=> escrows[k].state = "Funded")]_vars

\* R funded the record and it was disputed within the same second: both
\* calls succeeded and the record is Disputed, its funds in custody.
C23_Witness ==
    /\ last = Call("dispute", "P", "P", 0, "Ok")
    /\ escrows["P"].state = "Disputed" /\ escrows["P"].renter = "R"
    /\ escrows["P"].amount = 1 /\ custody["P"] = 1
    /\ escrows["P"].created_at = 0
    /\ escrows["P"].funded_at = Some(1) /\ escrows["P"].disputed_at = Some(1)

\* The instructions that compete for a Funded record.
Race == {"release", "refund", "dispute"}

\* C24: release (signed by the renter), refund and dispute on the same record
\* are serialized, and only a call that sees the record Funded proceeds: it
\* succeeds (unless the ledger or the account space rejects it, which leaves
\* everything as it was) and takes the record out of Funded for good, so at
\* most one of them ever succeeds; every call that runs once the record has
\* left Funded, in particular the one right after the winner, fails with
\* InvalidState and changes neither a record nor a balance.
C24_OneSettlerWins ==
    /\ [][\A k \in Providers :
             (/\ escrows[k] # NoRecord
              /\ Processed(k)
              /\ last'.op \in Race
              /\ last'.op = "release" => last'.caller = escrows[k].renter)
             => /\ escrows[k].state # "Funded" => last'.result = InvalidState
                /\ escrows[k].state = "Funded" => last'.result \in {"Ok"} \cup Rejections
                /\ last'.result = "Ok"
                      => escrows'[k].state \in {"Released", "Refunded", "Disputed"}
                /\ last'.result # "Ok" => (escrows' = escrows /\ NoFundsMove)]_vars
    /\ [][\A k \in Providers :
             escrows[k].state \in {"Released", "Refunded", "Disputed"}
                => escrows'[k].state # "Funded"]_vars
    /\ [][\A k \in Providers : \A first \in Race, second \in Race :
             (/\ Consecutive(k, first, second)
              /\ last.result = "Ok"
              /\ second = "release" => last'.caller = escrows[k].renter)
             => (last'.result = InvalidState /\ escrows' = escrows /\ NoFundsMove)]_vars

\* The refund by the provider P ran right after the renter's dispute had
\* won: it failed with InvalidState and the unit is still in custody.
C24_Witness ==
    /\ last = Call("refund", "P", "P", 0, InvalidState)
    /\ escrows["P"].state = "Disputed" /\ escrows["P"].renter = "R"
    /\ escrows["P"].disputed_at = Some(now)
    /\ escrows["P"].amount = 1 /\ custody["P"] = 1
    /\ wallet["R"] = InitBal - 1 /\ wallet["P"] = InitBal

\* The step is some instruction applied to the escrow of provider k.
OperationOn(k) ==
    \/ \E t \in offers : Initialize(k, t)
    \/ \E c \in Callers, a \in Amounts, ok \in BOOLEAN : Fund(k, c, a, ok)
    \/ \E c \in Callers : Complete(k, c)
    \/ \E c \in Callers, ok \in BOOLEAN :
          \/ Release(k, c, ok) \/ Refund(k, c, ok)
          \/ ResolveDisputeRelease(k, c, ok) \/ ResolveDisputeRefund(k, c, ok)
    \/ \E c \in Callers, r \in Reasons : Dispute(k, c, r)

\* The instruction took effect on the escrow of provider k.
TookEffect(k) == escrows'[k] # escrows[k]

\* The moves of a record's state: creation and the six edges.
OwnSteps == {<<NoRecord.state, "Created">>} \cup {<<ed[1], ed[3]>> : ed \in Edges}

\* C25: escrows of different providers are independent.  An instruction
\* applied to the escrow of provider k, whether it succeeds or fails, leaves
\* the record, the custody balance and the withdrawal log of every other
\* provider unchanged (a step that changes anything changes k's record);
\* k's record moves only along the edge its own state allows; and whether
\* an instruction can take effect is decided by k's own record, the signer,
\* the signer's wallet and the ledger, whatever the state of the other
\* provider's record.
C25_RecordsIndependent ==
    /\ [][\/ vars' = vars
          \/ \A k \in Providers :
                /\ OperationOn(k)
                      => /\ TookEffect(k)
                         /\ \A q \in Providers \ {k} :
                               /\ escrows'[q] = escrows[q]
                               /\ custody'[q] = custody[q]
                               /\ withdrawn'[q] = withdrawn[q]
                /\ TookEffect(k)
                      => <<escrows[k].state, escrows'[k].state>> \in OwnSteps]_vars
    /\ [](\A k \in Providers : \A c \in Callers :
             LET e == escrows[k]
             IN /\ e = NoRecord
                      => \A t \in offers : ENABLED (Initialize(k, t) /\ TookEffect(k))
                /\ e.state = "Created"
                      => \A a \in Amounts :
                            wallet[c] >= a => ENABLED (Fund(k, c, a, TRUE) /\ TookEffect(k))
                /\ e.state = "Funded"
                      => /\ e.renter = c => ENABLED (Release(k, c, TRUE) /\ TookEffect(k))
                         /\ ENABLED (Refund(k, c, TRUE) /\ TookEffect(k))
                         /\ \A r \in Reasons :
                               StringBytes(DisputeStaged(e, r)) <= StringSpace
                                  => ENABLED (Dispute(k, c, r) /\ TookEffect(k))
                /\ e.state = "Disputed"
                      => /\ ENABLED (ResolveDisputeRelease(k, c, TRUE) /\ TookEffect(k))
                         /\ ENABLED (ResolveDisputeRefund(k, c, TRUE) /\ TookEffect(k)))

\* P's escrow was funded by R and released while Q's escrow, funded by A,
\* stayed Funded with its unit in custody.
C25_Witness ==
    /\ escrows["P"].state = "Released" /\ escrows["P"].renter = "R"
    /\ escrows["P"].amount = 1 /\ custody["P"] = 0
    /\ withdrawn["P"] = <<[to |-> "P", amount |-> 1]>>
    /\ escrows["Q"].state = "Funded" /\ escrows["Q"].renter = "A"
    /\ escrows["Q"].amount = 1 /\ custody["Q"] = 1
    /\ withdrawn["Q"] = <<>>
    /\ wallet["P"] = InitBal + 1 /\ wallet["Q"] = InitBal

\* Two optional timestamps are in order when both are set.
InOrder(a, b) == a = None \/ b = None \/ a[1] <= b[1]

\* C26: with the clock never going back, created_at, funded_at, disputed_at
\* and completed_at of a record are each written at most once and never
\* reset or overwritten, and those that are set respect the order
\* created_at <= funded_at <= disputed_at <= completed_at.
C26_TimestampsOnceInOrder ==
    /\ [](\A k \in Providers :
             escrows[k] # NoRecord
             => LET e == escrows[k]
                IN /\ InOrder(Some(e.created_at), e.funded_at)
                   /\ InOrder(Some(e.created_at), e.disputed_at)
                   /\ InOrder(Some(e.created_at), e.completed_at)
                   /\ InOrder(e.funded_at, e.disputed_at)
                   /\ InOrder(e.funded_at, e.completed_at)
                   /\ InOrder(e.disputed_at, e.completed_at)
                   /\ e.created_at <= now)
    /\ [][\A k \in Providers :
             escrows[k] # NoRecord
             => /\ escrows'[k] # NoRecord
                /\ escrows'[k].created_at = escrows[k].created_at
                /\ escrows[k].funded_at # None
                      => escrows'[k].funded_at = escrows[k].funded_at
                /\ escrows[k].disputed_at # None
                      => escrows'[k].disputed_at = escrows[k].disputed_at
                /\ escrows[k].completed_at # None
                      => escrows'[k].completed_at = escrows[k].completed_at]_vars

\* A record created and funded at time 0, disputed and resolved in favour of
\* the provider at time 1: all four timestamps are set.
C26_Witness ==
    /\ escrows["P"].state = "Released"
    /\ escrows["P"].created_at = 0 /\ escrows["P"].funded_at = Some(0)
    /\ escrows["P"].disputed_at = Some(1) /\ escrows["P"].completed_at = Some(1)
    /\ last.op = "resolve_dispute_release" /\ last.result = "Ok"

\* The instructions of the simple program that pay out of custody.
SimpleSettling == {"complete_task", "cancel_escrow"}

\* The step processed an instruction on k's record that got as far as its
\* transfer out of custody: the accounts and the state check passed.
ReachesTransfer(k) ==
    /\ escrows[k] # NoRecord
    /\ escrows[k].amount > 0
    /\ Processed(k)
    /\ \/ /\ last'.op \in Settling
          /\ escrows[k].state = RequiredState(last'.op)
          /\ last'.op = "release" => last'.caller = escrows[k].renter
       \/ /\ last'.op \in SimpleSettling
          /\ escrows[k].state = "Funded"

\* C27: every transfer out of custody, in the escrow program (release,
\* refund, the two resolve instructions) and in the simple program
\* (complete_task, cancel_escrow), is signed with exactly the seeds the
\* record's address is derived from: the seed prefix and the record's
\* provider.
C27_TransfersSignedByPda ==
    [][\A k \in Providers :
          ReachesTransfer(k)
          => LET e == escrows[k]
             IN IF last'.op \in SimpleSettling
                THEN SimpleSignerSeeds(e) = SimplePdaSeeds(e)
                ELSE SignerSeeds(e) = PdaSeeds(e)]_vars

\* C28: in the simple program, complete_task on a Funded record (one holding
\* funds) is open to the record's provider and its renter only: signed by
\* one of them, with the ledger accepting the transfer, it succeeds, pays the
\* provider and leaves the record Completed; signed by anybody else it is
\* rejected, the record stays Funded and no funds move.
C28_CompleteOnlyByParty ==
    [][\A k \in Providers, c \in Actors :
          (/\ escrows[k].state = "Funded"
           /\ escrows[k].amount > 0
           /\ CompleteTask(k, c, TRUE))
          => LET e == escrows[k]
             IN IF c \in {e.provider, e.renter}
                THEN /\ last'.result = "Ok"
                     /\ escrows'[k].state = "Completed"
                     /\ custody'[k] = custody[k] - e.amount
                     /\ wallet' = [wallet EXCEPT ![e.provider] = @ + e.amount]
                ELSE /\ last'.result # "Ok"
                     /\ escrows' = escrows
                     /\ NoFundsMove]_vars

\* C29: in the simple program, cancel_escrow on a Funded record (one holding
\* funds), with the ledger accepting the transfer, succeeds when signed by
\* the provider, at any time, and when signed by the renter once
\* now >= created_at + duration_seconds: the record becomes Cancelled and
\* the funds go back to the renter.  Signed by anybody else, or by the
\* renter before the timeout, it is rejected, the record stays Funded and
\* the funds stay in custody.
C29_CancelByProviderOrTimeout ==
    [][\A k \in Providers, c \in Actors :
          (/\ escrows[k].state = "Funded"
           /\ escrows[k].amount > 0
           /\ CancelEscrow(k, c, TRUE))
          => LET e == escrows[k]
             IN IF \/ c = e.provider
                   \/ c = e.renter /\ now >= e.created_at + e.duration_seconds
                THEN /\ last'.result = "Ok"
                     /\ escrows'[k].state = "Cancelled"
                     /\ custody'[k] = custody[k] - e.amount
                     /\ wallet' = [wallet EXCEPT ![e.renter] = @ + e.amount]
                ELSE /\ last'.result # "Ok"
                     /\ escrows' = escrows
                     /\ NoFundsMove]_vars

\* C30: locked funds are never stranded.  In every reachable state a Funded
\* record can be settled at once by a refund and a Disputed record by either
\* resolution; and when settlement keeps being attempted with the ledger
\* accepting the transfers, every record that is Funded or Disputed
\* eventually is Released or Refunded with nothing left in its custody
\* account.
C30_FundsNeverStranded ==
    /\ [](\A k \in keys :
            /\ escrows[k].state = "Funded" => ENABLED RefundDone(k)
            /\ escrows[k].state = "Disputed"
                  => /\ ENABLED ResolveDisputeReleaseDone(k)
                     /\ ENABLED ResolveDisputeRefundDone(k))
    /\ \A k \in Providers :
          (escrows[k].state \in {"Funded", "Disputed"})
             ~> (IsTerminal(escrows[k]) /\ custody[k] = 0)

\* A record that held funds and went through a dispute is settled, its
\* custody account empty and the funds paid out.
C30_Witness ==
    \E k \in keys :
        /\ IsTerminal(escrows[k])
        /\ escrows[k].amount > 0
        /\ escrows[k].disputed_at # None
        /\ custody[k] = 0
        /\ Len(withdrawn[k]) = 1

\* Sum of total_ratings over the agent accounts in S.
RECURSIVE SumRatings(_)
SumRatings(S) ==
    IF S = {} THEN 0
    ELSE LET a == CHOOSE x \in S : TRUE
         IN (IF agents[a] = None THEN 0 ELSE agents[a][1].total_ratings)
            + SumRatings(S \ {a})

\* C31: in programs/reputation an add_review whose accounts are valid and
\* whose rating is outside 1..5 fails with InvalidRating and changes no
\* agent, review or state account; every agent has
\* total_ratings <= rating_sum <= 5 * total_ratings; and every state
\* account's total_reviews equals the sum of total_ratings over all agents.
C31_RatingsCounted ==
    /\ [][\A s \in StateAccounts, a \in AgentAccounts, v \in ReviewAddresses,
            c \in ReputationSigners, r \in Ratings, t \in Texts :
            (/\ repStates[s] # None /\ agents[a] # None /\ reviews[v] = None
             /\ r \notin 1..5
             /\ AddReview(s, a, v, c, r, t))
            => /\ last'.result = "InvalidRating"
               /\ UNCHANGED reputationVars]_vars
    /\ [](\A a \in AgentAccounts :
            agents[a] # None
            => /\ agents[a][1].total_ratings <= agents[a][1].rating_sum
               /\ agents[a][1].rating_sum <= 5 * agents[a][1].total_ratings)
    /\ [](\A s \in StateAccounts :
            repStates[s] # None
            => repStates[s][1].total_reviews = SumRatings(AgentAccounts))

\* The agent account a exists and has been deactivated.
Deactivated(a) == agents[a] # None /\ ~agents[a][1].is_active

\* The step processed the instruction op on the agent account a.
ReputationCall(op, a) == last'.op = op /\ last'.key = a

\* The rating and the ratings count of a deactivated agent never change, and
\* a second deactivate_agent fails with AgentAlreadyInactive.
Frozen(a) ==
    /\ Deactivated(a)
          => /\ agents'[a] # None
             /\ ~agents'[a][1].is_active
             /\ agents'[a][1].total_ratings = agents[a][1].total_ratings
             /\ agents'[a][1].rating_sum = agents[a][1].rating_sum
    /\ Deactivated(a) /\ ReputationCall("deactivate_agent", a)
          => /\ last'.result = "AgentAlreadyInactive"
             /\ UNCHANGED reputationVars

\* C32 as stated: deactivation is permanent, later ratings are frozen, a
\* second deactivate_agent fails with AgentAlreadyInactive, and every later
\* add_review for the agent (with a state account that exists and a fresh
\* review account) fails with AgentNotActive.
C32_DeactivationPermanent ==
    [][\A a \in AgentAccounts :
          /\ Frozen(a)
          /\ Deactivated(a) /\ ReputationCall("add_review", a)
                => \A s \in StateAccounts, v \in ReviewAddresses, t \in Texts :
                      (/\ repStates[s] # None /\ reviews[v] = None
                       /\ AddReview(s, a, v, last'.caller, last'.amount, t))
                      => last'.result = "AgentNotActive"]_vars

\* C32, amended: deactivation is permanent, later ratings are frozen, a
\* second deactivate_agent fails with AgentAlreadyInactive, and every later
\* add_review for the agent fails and changes no account; it fails with
\* AgentNotActive when its accounts are valid, its rating is in 1..5 and its
\* comment and skill_category are within their lengths, the checks that come
\* before the one on is_active.
C32_DeactivationFreezes ==
    [][\A a \in AgentAccounts :
          /\ Frozen(a)
          /\ Deactivated(a) /\ ReputationCall("add_review", a)
                => /\ last'.result # "Ok"
                   /\ UNCHANGED reputationVars
                   /\ \A s \in StateAccounts, v \in ReviewAddresses, t \in Texts :
                         (/\ repStates[s] # None /\ reviews[v] = None
                          /\ last'.amount \in 1..5
                          /\ t[1] <= 500 /\ t[2] <= 32
                          /\ AddReview(s, a, v, last'.caller, last'.amount, t))
                         => last'.result = "AgentNotActive"]_vars

\* An agent that was reviewed and then deactivated has just had a
\* well-formed review refused.
C32_Witness ==
    \E a \in AgentAccounts :
        /\ Deactivated(a)
        /\ agents[a][1].total_ratings > 0
        /\ last.op = "add_review" /\ last.key = a /\ last.amount \in 1..5
        /\ last.result = "AgentNotActive"
        /\ \E v \in ReviewAddresses : reviews[v] = None

\* The reviews recorded for the agent, and those of them completed on time.
ReviewsOf(agent) ==
    {i \in ReviewIds : reviewAccounts[i] # None /\ reviewAccounts[i][1].provider = agent}

OnTimeReviewsOf(agent) ==
    {i \in ReviewsOf(agent) : reviewAccounts[i][1].completed_on_time}

\* C33: in reputation.rs, for every agent with reviews, on_time_percentage
\* is 100 times the number of its reviews submitted with
\* completed_on_time = true divided by total_reviews, and total_reviews is
\* the number of successful submit_review calls (each creates one review
\* account, never closed).
C33_OnTimePercentage ==
    \A a \in Providers :
        reputations[a] # None
        => LET rep == reputations[a][1]
           IN /\ rep.total_reviews = Cardinality(ReviewsOf(a))
              /\ rep.total_reviews > 0
                    => rep.on_time_percentage[1] * rep.total_reviews
                          = 100 * Cardinality(OnTimeReviewsOf(a)) * rep.on_time_percentage[2]

====
